---- MODULE Spec2Model ----
(***************************************************************************)
(* Call-centre queueing simulations of modele_kolejkowe.                   *)
(*                                                                         *)
(*   simulation.py        Responder + route_* + generator + simulate()     *)
(*   valid_simulation.py  Consultant (same loop as Responder, with the     *)
(*                        handled_calls bookkeeping of its data record)    *)
(*   modele_kolejkowe.py  shared client_queue, client_arrival, worker,     *)
(*                        simulate_queue                                   *)
(*                                                                         *)
(* All three run on one asyncio event loop: one task runs at a time, from  *)
(* one await that suspends to the next.  Every action below is one such    *)
(* step.  asyncio.Queue.get() and put() do not suspend when the queue is   *)
(* non-empty / not full, so they are part of the step that calls them.     *)
(***************************************************************************)
EXTENDS Integers, Sequences, FiniteSets, TLC

\* ------------------------------------------------------------------ bounds
MaxResponders == 2
MaxBuffer     == 2
MaxThreshold  == 2
MaxCalls      == 3
MaxClients     == 3
MaxConsultants == 2
MaxQueueSize   == 2

VARIABLES
    program,            \* which of the three source files is running
    \* ---- parameters of simulate() / of the constructors
    num_responders, buffer_size, break_threshold, routing_fn,
    has_handled_calls,  \* valid_simulation: data[name] has key 'handled_calls'
    \* ---- Responder / Consultant fields
    queue, processed, rejected, calls_since_break,
    queue_lengths, handling_times, handled_calls_data,
    \* ---- position of each Responder.run task and the call it holds
    pc, current,
    \* ---- create_calls_generator_poisson / assign_calls
    gen_call, dpc, chosen,
    \* ---- simulate()
    mainpc, cancel_requested, total_processed, total_rejected,
    \* ---- what the log lines record (Queueing / Handled / Rejected call)
    admitted, handled, rejected_log,
    \* ---- modele_kolejkowe.py: parameters of simulate_queue
    num_clients, num_consultants, max_queue_size,
    \* ---- client_queue: its items, its waiting getters, its join counter
    client_queue, getters, unfinished_tasks,
    \* ---- client_arrival's loop index and the position of simulate_queue
    arrival_i, apc,
    \* ---- the worker tasks: position, client and service time in hand
    wpc, wclient, service_time,
    \* ---- Consultant fields (times in thirds of a second)
    handled_calls, break_duration, time_on_breaks, time_on_calls,
    time_on_previous_call,
    \* ---- result lists of simulate_queue
    processed_clients, rejected_clients

simvars == << num_responders, buffer_size, break_threshold, routing_fn,
              has_handled_calls, queue, processed, rejected,
              calls_since_break, queue_lengths, handling_times,
              handled_calls_data, pc, current, gen_call, dpc, chosen,
              mainpc, cancel_requested, total_processed, total_rejected,
              admitted, handled, rejected_log >>

mkvars == << num_clients, num_consultants, max_queue_size, client_queue,
             getters, unfinished_tasks, arrival_i, apc, wpc, wclient,
             service_time, handled_calls, break_duration, time_on_breaks,
             time_on_calls, time_on_previous_call, processed_clients,
             rejected_clients >>

vars == << program, simvars, mkvars >>

SimRunning == program \in {"simulation", "valid_simulation"}
MKRunning  == program = "modele_kolejkowe"

Slots      == 1..MaxResponders
Responders == 1..num_responders
NoCall     == -1

\* ------------------------------------------------------------ pure helpers
RECURSIVE SumTo(_, _)
SumTo(f, n) == IF n = 0 THEN 0 ELSE f[n] + SumTo(f, n - 1)

\* sum(responder.x for responder in responders)
SumOver_mutant(f) == SumTo(f, num_responders - 1)
SumOver(f) == SumTo(f, num_responders)

\* asyncio.Queue(maxsize).full(): a maxsize <= 0 means an unbounded queue
full_mutant(q, maxsize) == maxsize > 0 /\ Len(q) > maxsize
full(q, maxsize) == maxsize > 0 /\ Len(q) >= maxsize

\* asyncio.Queue.get_nowait(): the item at the head of the deque
get_item_mutant(q) == q[Len(q)]
get_item(q) == Head(q)

get_rest_mutant(q) == SubSeq(q, 1, Len(q) - 1)
get_rest(q) == Tail(q)

\* min(servers, key=qsize): left-to-right scan keeping the first minimum
RECURSIVE MinScan(_, _, _, _)
MinScan(qs, n, i, best) ==
    IF i > n THEN best
    ELSE MinScan(qs, n, i + 1, IF Len(qs[i]) < Len(qs[best]) THEN i ELSE best)

RECURSIVE MinScanLast(_, _, _, _)
MinScanLast(qs, n, i, best) ==
    IF i > n THEN best
    ELSE MinScanLast(qs, n, i + 1, IF Len(qs[i]) <= Len(qs[best]) THEN i ELSE best)

route_shortest_queue_mutant(qs, n) == MinScanLast(qs, n, 2, 1)
route_shortest_queue_first(qs, n) == 1
route_shortest_queue(qs, n) == MinScan(qs, n, 2, 1)

\* random.choice(servers): any of them
route_random(n) == 1..n

RoutingChoices ==
    IF routing_fn = "route_shortest_queue"
    THEN {route_shortest_queue(queue, num_responders)}
    ELSE route_random(num_responders)

\* Number of calls the generator has yielded so far
calls_generated == IF dpc = "routed" THEN gen_call + 1 ELSE gen_call

Range(seq) == {seq[i] : i \in 1..Len(seq)}

\* Responder r holds a call it took from its queue and has not completed
InService(r) == current[r] # NoCall /\ current[r] \notin Range(handled[r])

\* Calls waiting in the queues / calls in service, over all responders
QueuedCalls == SumTo([r \in Slots |-> Len(queue[r])], num_responders)
InServiceCalls ==
    SumTo([r \in Slots |-> IF InService(r) THEN 1 ELSE 0], num_responders)

\* ------------------------------------------------------------------- Init
InitSim ==
    /\ num_responders \in (IF SimRunning THEN 1..MaxResponders ELSE {1})
    /\ buffer_size \in (IF SimRunning THEN 0..MaxBuffer ELSE {1})
    /\ break_threshold \in (IF SimRunning THEN 1..MaxThreshold ELSE {1})
    /\ routing_fn \in (IF SimRunning THEN {"route_random", "route_shortest_queue"}
                                     ELSE {"route_random"})
    /\ has_handled_calls \in (IF program = "valid_simulation" THEN BOOLEAN ELSE {FALSE})
    /\ queue = [r \in Slots |-> << >>]
    /\ processed = [r \in Slots |-> 0]
    /\ rejected = [r \in Slots |-> 0]
    /\ calls_since_break = [r \in Slots |-> 0]
    /\ queue_lengths = [r \in Slots |-> << >>]
    /\ handling_times = [r \in Slots |-> 0]
    /\ handled_calls_data = [r \in Slots |-> 0]
    /\ pc = [r \in Slots |-> IF SimRunning /\ r <= num_responders
                              THEN "start" ELSE "absent"]
    /\ current = [r \in Slots |-> NoCall]
    /\ gen_call = 0
    /\ dpc = IF SimRunning THEN "start" ELSE "absent"
    /\ chosen = 0
    /\ mainpc = IF SimRunning THEN "sleeping" ELSE "absent"
    /\ cancel_requested = FALSE
    /\ total_processed = 0
    /\ total_rejected = 0
    /\ admitted = [r \in Slots |-> << >>]
    /\ handled = [r \in Slots |-> << >>]
    /\ rejected_log = [r \in Slots |-> << >>]

WSlots  == 1..MaxConsultants
Workers == 1..num_consultants
NoClient == 0

\* np.random.exponential(mu) draws, in thirds of a second (1 s and 6 s)
ServiceTimes == {3, 18}

InitMK ==
    /\ num_clients \in (IF MKRunning THEN 0..MaxClients ELSE {0})
    /\ num_consultants \in (IF MKRunning THEN 0..MaxConsultants ELSE {0})
    /\ max_queue_size \in (IF MKRunning THEN 0..MaxQueueSize ELSE {0})
    /\ client_queue = << >>
    /\ getters = << >>
    /\ unfinished_tasks = 0
    /\ arrival_i = 1
    /\ apc = IF MKRunning THEN "start" ELSE "absent"
    /\ wpc = [w \in WSlots |-> IF MKRunning /\ w <= num_consultants
                                THEN "start" ELSE "absent"]
    /\ wclient = [w \in WSlots |-> NoClient]
    /\ service_time = [w \in WSlots |-> 0]
    /\ handled_calls = [w \in WSlots |-> 0]
    /\ break_duration = [w \in WSlots |-> 0]
    /\ time_on_breaks = [w \in WSlots |-> 0]
    /\ time_on_calls = [w \in WSlots |-> 0]
    /\ time_on_previous_call = [w \in WSlots |-> 0]
    /\ processed_clients = << >>
    /\ rejected_clients = << >>

Init ==
    /\ program \in {"simulation", "valid_simulation", "modele_kolejkowe"}
    /\ InitSim
    /\ InitMK

\* ------------------------------------------------- assign_calls (dispatch)
\* The generator yields the next call and routing_fn picks a responder.
\* The dispatch task runs first after create_task, and after every later
\* wake-up it runs behind the getter that its previous put() woke.
Route ==
    /\ SimRunning
    /\ ~cancel_requested
    /\ dpc \in {"start", "sleeping"}
    /\ dpc = "sleeping" => \A r \in Responders : pc[r] \notin {"start", "woken"}
    /\ gen_call < MaxCalls
    /\ chosen' \in RoutingChoices
    /\ dpc' = "routed"
    /\ UNCHANGED << program, mkvars, num_responders, buffer_size, break_threshold,
                    routing_fn, has_handled_calls, queue, processed, rejected,
                    calls_since_break, queue_lengths, handling_times,
                    handled_calls_data, pc, current, gen_call, mainpc,
                    cancel_requested, total_processed, total_rejected,
                    admitted, handled, rejected_log >>

\* generator: `call += 1`
next_call_mutant(call) == call
next_call(call) == call + 1

\* asyncio.Queue.put(): `while self.full(): await putter`, the wait for a
\* free slot of a put() on a bounded queue
put_must_wait(q, maxsize) == maxsize > 0 /\ Len(q) >= maxsize

\* Responder.receive(call), then the generator's call += 1 and its sleep.
\* A put() that had to wait for a slot would leave the dispatch task
\* suspended inside receive ("blocked").
Receive ==
    /\ dpc = "routed"
    /\ LET r == chosen
           call == gen_call IN
       IF full(queue[r], buffer_size)
       THEN /\ rejected' = [rejected EXCEPT ![r] = @ + 1]
            /\ rejected_log' = [rejected_log EXCEPT ![r] = Append(@, call)]
            /\ gen_call' = next_call(gen_call)
            /\ dpc' = "sleeping"
            /\ UNCHANGED << queue, pc, admitted >>
       ELSE IF put_must_wait(queue[r], buffer_size)
       THEN /\ dpc' = "blocked"
            /\ UNCHANGED << queue, pc, admitted, rejected, rejected_log,
                            gen_call >>
       ELSE /\ queue' = [queue EXCEPT ![r] = Append(@, call)]
            /\ admitted' = [admitted EXCEPT ![r] = Append(@, call)]
            /\ pc' = [pc EXCEPT ![r] = IF @ = "get" THEN "woken" ELSE @]
            /\ gen_call' = next_call(gen_call)
            /\ dpc' = "sleeping"
            /\ UNCHANGED << rejected, rejected_log >>
    /\ UNCHANGED << program, mkvars, num_responders, buffer_size, break_threshold,
                    routing_fn, has_handled_calls, processed,
                    calls_since_break, queue_lengths, handling_times,
                    handled_calls_data, current, chosen, mainpc,
                    cancel_requested, total_processed, total_rejected,
                    handled >>

\* ------------------------------------------------- Responder.run (worker)
\* A task may take a step only between the steps of the others, and none
\* once it is cancelled
CanStep_mutant(r) ==
    /\ r \in Responders
    /\ dpc \notin {"start", "routed"}

CanStep(r) ==
    /\ r \in Responders
    /\ ~cancel_requested
    /\ dpc \notin {"start", "routed"}

\* `call = await self.queue.get()` followed by simulate_handling_call's
\* sleep: with a call waiting the task goes on to the service sleep,
\* otherwise it suspends in get().  current[r] is the local `call`: it
\* keeps the last call taken until the next one is taken.
AwaitGet(r, q) ==
    IF q = << >>
    THEN /\ pc' = [pc EXCEPT ![r] = "get"]
         /\ UNCHANGED << queue, current >>
    ELSE /\ pc' = [pc EXCEPT ![r] = "handling"]
         /\ queue' = [queue EXCEPT ![r] = get_rest(q)]
         /\ current' = [current EXCEPT ![r] = get_item(q)]

\* First step of the task, and the step of a getter that put() woke
RTake(r) ==
    /\ CanStep(r)
    /\ pc[r] \in {"start", "woken"}
    /\ AwaitGet(r, queue[r])
    /\ UNCHANGED << program, mkvars, num_responders, buffer_size, break_threshold,
                    routing_fn, has_handled_calls, processed, rejected,
                    calls_since_break, queue_lengths, handling_times,
                    handled_calls_data, gen_call, dpc, chosen, mainpc,
                    cancel_requested, total_processed, total_rejected,
                    admitted, handled, rejected_log >>

\* `if self.calls_since_break >= self.break_threshold`
break_due_mutant(n, threshold) == n > threshold
break_due(n, threshold) == n >= threshold

\* valid_simulation.py lines 62-64: "calls_handled" is never a key of
\* self.data (its keys are the consultants' names), the entry written is
\* 'hchandled_calls', and the += on 'handled_calls' raises KeyError when
\* the record has no such key.
RaisesKeyError == program = "valid_simulation" /\ ~has_handled_calls

\* valid_simulation.py take_break:
\* `break_time = max(5, min(10, 5 + (handled_calls // 5)))`
break_time(calls) ==
    LET grown  == 5 + (calls \div 5)
        capped == IF grown < 10 THEN grown ELSE 10
    IN  IF capped > 5 THEN capped ELSE 5

\* `self.data[self.name]["queue_lengths"].append(self.queue.qsize())`
append_sample_mutant(samples, qsize) == samples
append_sample(samples, qsize) == Append(samples, qsize)

\* The service sleep is over: counters, samples, then break or next call
RFinish(r) ==
    /\ CanStep(r)
    /\ pc[r] = "handling"
    /\ processed' = [processed EXCEPT ![r] = @ + 1]
    /\ calls_since_break' = [calls_since_break EXCEPT ![r] = @ + 1]
    /\ queue_lengths' = [queue_lengths EXCEPT
                           ![r] = append_sample(@, Len(queue[r]))]
    /\ handling_times' = [handling_times EXCEPT ![r] = @ + 1]
    /\ handled' = [handled EXCEPT ![r] = Append(@, current[r])]
    /\ IF RaisesKeyError
       THEN /\ pc' = [pc EXCEPT ![r] = "crashed"]
            /\ UNCHANGED << queue, current, handled_calls_data >>
       ELSE /\ handled_calls_data' =
                   [handled_calls_data EXCEPT
                       ![r] = IF program = "valid_simulation" THEN @ + 1 ELSE @]
            /\ IF break_due(calls_since_break'[r], break_threshold)
               THEN /\ pc' = [pc EXCEPT ![r] = "break"]
                    /\ UNCHANGED << queue, current >>
               ELSE AwaitGet(r, queue[r])
    /\ UNCHANGED << program, mkvars, num_responders, buffer_size, break_threshold,
                    routing_fn, has_handled_calls, rejected, gen_call, dpc,
                    chosen, mainpc, cancel_requested, total_processed,
                    total_rejected, admitted, rejected_log >>

\* take_break: `self.calls_since_break = 0` after the break sleep
after_break_mutant(n) == n
after_break(n) == 0

\* The break sleep is over: reset, back to the top of the loop
RBreakEnd(r) ==
    /\ CanStep(r)
    /\ pc[r] = "break"
    /\ calls_since_break' = [calls_since_break EXCEPT ![r] = after_break(@)]
    /\ AwaitGet(r, queue[r])
    /\ UNCHANGED << program, mkvars, num_responders, buffer_size, break_threshold,
                    routing_fn, has_handled_calls, processed, rejected,
                    queue_lengths, handling_times, handled_calls_data,
                    gen_call, dpc, chosen, mainpc, cancel_requested,
                    total_processed, total_rejected, admitted, handled,
                    rejected_log >>

\* ---------------------------------------------------------------- simulate
\* asyncio.sleep(simulation_time) is over: cancel every task, then sum the
\* counters in the same step (there is no await after the cancel loop).
Teardown ==
    /\ mainpc = "sleeping"
    /\ dpc \notin {"start", "routed"}
    /\ \A r \in Responders : pc[r] # "start"
    /\ cancel_requested' = TRUE
    /\ total_processed' = SumOver(processed)
    /\ total_rejected' = SumOver(rejected)
    /\ mainpc' = "done"
    /\ UNCHANGED << program, mkvars, num_responders, buffer_size, break_threshold,
                    routing_fn, has_handled_calls, queue, processed, rejected,
                    calls_since_break, queue_lengths, handling_times,
                    handled_calls_data, pc, current, gen_call, dpc, chosen,
                    admitted, handled, rejected_log >>

\* A cancelled task is resumed with CancelledError at the await it is
\* suspended in, and leaves its loop there.  The tasks are resumed in the
\* order of the cancel() calls: the dispatch task, then the responders.
RCancelled(r) ==
    /\ r \in Responders
    /\ cancel_requested
    /\ dpc # "sleeping"
    /\ \A o \in 1..(r - 1) : pc[o] \in {"cancelled", "crashed"}
    /\ pc[r] \in {"get", "woken", "handling", "break"}
    /\ pc' = [pc EXCEPT ![r] = "cancelled"]
    /\ UNCHANGED << program, mkvars, num_responders, buffer_size, break_threshold,
                    routing_fn, has_handled_calls, queue, processed, rejected,
                    calls_since_break, queue_lengths, handling_times,
                    handled_calls_data, current, gen_call, dpc, chosen,
                    mainpc, cancel_requested, total_processed, total_rejected,
                    admitted, handled, rejected_log >>

DCancelled ==
    /\ cancel_requested
    /\ dpc = "sleeping"
    /\ dpc' = "cancelled"
    /\ UNCHANGED << program, mkvars, num_responders, buffer_size, break_threshold,
                    routing_fn, has_handled_calls, queue, processed, rejected,
                    calls_since_break, queue_lengths, handling_times,
                    handled_calls_data, pc, current, gen_call, chosen,
                    mainpc, cancel_requested, total_processed, total_rejected,
                    admitted, handled, rejected_log >>

\* ------------------------------------------------------ modele_kolejkowe
\* `await client_queue.join()` and what follows it: with no unfinished item
\* join() returns at once and the worker tasks are cancelled.
AfterArrivals_mutant(unfinished) == "done"
AfterArrivals(unfinished) == IF unfinished = 0 THEN "done" ELSE "join"

\* simulate_queue up to its first suspension.  With num_clients = 0 the
\* arrival loop has no iteration and nothing suspends before the cancel.
MKStart ==
    /\ MKRunning
    /\ apc = "start"
    /\ apc' = IF num_clients = 0 THEN AfterArrivals(unfinished_tasks)
                                  ELSE "arrival_sleep"
    /\ UNCHANGED << program, simvars, num_clients, num_consultants,
                    max_queue_size, client_queue, getters, unfinished_tasks,
                    arrival_i, wpc, wclient, service_time, handled_calls,
                    break_duration, time_on_breaks, time_on_calls,
                    time_on_previous_call, processed_clients,
                    rejected_clients >>

\* `if client_queue.qsize() < max_queue_size`
has_room_mutant(q, limit) == Len(q) <= limit
has_room(q, limit) == Len(q) < limit

\* One iteration of client_arrival after its inter-arrival sleep.  put()
\* on the unbounded queue appends, counts the item as unfinished and wakes
\* the first waiting getter.  The worker tasks, created before the first
\* sleep, have all started by then, and a getter woken by the previous
\* put() has run before this sleep is over.
Arrive ==
    /\ apc = "arrival_sleep"
    /\ \A w \in Workers : wpc[w] \notin {"start", "woken"}
    /\ IF has_room(client_queue, max_queue_size)
       THEN /\ client_queue' = Append(client_queue, arrival_i)
            /\ unfinished_tasks' = unfinished_tasks + 1
            /\ IF getters # << >>
               THEN /\ wpc' = [wpc EXCEPT ![Head(getters)] = "woken"]
                    /\ getters' = Tail(getters)
               ELSE UNCHANGED << wpc, getters >>
            /\ UNCHANGED rejected_clients
       ELSE /\ rejected_clients' = Append(rejected_clients, arrival_i)
            /\ UNCHANGED << client_queue, unfinished_tasks, wpc, getters >>
    /\ arrival_i' = arrival_i + 1
    /\ apc' = IF arrival_i = num_clients THEN AfterArrivals(unfinished_tasks')
                                         ELSE "arrival_sleep"
    /\ UNCHANGED << program, simvars, num_clients, num_consultants,
                    max_queue_size, wclient, service_time, handled_calls,
                    break_duration, time_on_breaks, time_on_calls,
                    time_on_previous_call, processed_clients >>

\* join() returns once every queued item had its task_done()
JoinReturns ==
    /\ apc = "join"
    /\ unfinished_tasks = 0
    /\ apc' = "done"
    /\ UNCHANGED << program, simvars, num_clients, num_consultants,
                    max_queue_size, client_queue, getters, unfinished_tasks,
                    arrival_i, wpc, wclient, service_time, handled_calls,
                    break_duration, time_on_breaks, time_on_calls,
                    time_on_previous_call, processed_clients,
                    rejected_clients >>

WCanStep(w) ==
    /\ MKRunning
    /\ w \in Workers
    /\ apc \notin {"start", "done"}

\* worker: `await client_queue.get()` and, with a client in hand,
\* handle_call up to its service sleep.
WAwaitGet(w) ==
    IF client_queue = << >>
    THEN /\ wpc' = [wpc EXCEPT ![w] = "get"]
         /\ getters' = Append(getters, w)
         /\ wclient' = [wclient EXCEPT ![w] = NoClient]
         /\ UNCHANGED << client_queue, handled_calls, service_time >>
    ELSE /\ client_queue' = Tail(client_queue)
         /\ wclient' = [wclient EXCEPT ![w] = Head(client_queue)]
         /\ handled_calls' = [handled_calls EXCEPT ![w] = @ + 1]
         /\ \E s \in ServiceTimes :
                service_time' = [service_time EXCEPT ![w] = s]
         /\ wpc' = [wpc EXCEPT ![w] = "service"]
         /\ UNCHANGED getters

\* First step of a worker, and the step of a getter that put() woke (it
\* waits again when another worker took the client in between)
WTake(w) ==
    /\ WCanStep(w)
    /\ wpc[w] \in {"start", "woken"}
    /\ WAwaitGet(w)
    /\ UNCHANGED << program, simvars, num_clients, num_consultants,
                    max_queue_size, unfinished_tasks, arrival_i, apc,
                    break_duration, time_on_breaks, time_on_calls,
                    time_on_previous_call, processed_clients,
                    rejected_clients >>

\* take_break: max(self.time_on_previous_call/3, 1), in thirds of a second
break_length(previous) == IF previous >= 9 THEN previous \div 3 ELSE 3

\* handle_call after the service sleep, take_break up to the break sleep
WServiceEnd(w) ==
    /\ WCanStep(w)
    /\ wpc[w] = "service"
    /\ time_on_calls' = [time_on_calls EXCEPT ![w] = @ + service_time[w]]
    /\ break_duration' = [break_duration EXCEPT
                             ![w] = break_length(time_on_previous_call[w])]
    /\ wpc' = [wpc EXCEPT ![w] = "break"]
    /\ UNCHANGED << program, simvars, num_clients, num_consultants,
                    max_queue_size, client_queue, getters, unfinished_tasks,
                    arrival_i, apc, wclient, service_time, handled_calls,
                    time_on_breaks, time_on_previous_call, processed_clients,
                    rejected_clients >>

\* client_queue.task_done(): one unfinished item less
task_done_mutant(unfinished) == unfinished
task_done(unfinished) == unfinished - 1

\* The break sleep is over: rest of take_break and handle_call, the tail
\* of the worker loop (processed_clients, task_done) and the next get()
WBreakEnd(w) ==
    /\ WCanStep(w)
    /\ wpc[w] = "break"
    /\ time_on_breaks' = [time_on_breaks EXCEPT ![w] = @ + break_duration[w]]
    /\ time_on_previous_call' = [time_on_previous_call EXCEPT
                                    ![w] = service_time[w]]
    /\ processed_clients' = Append(processed_clients, wclient[w])
    /\ unfinished_tasks' = task_done(unfinished_tasks)
    /\ WAwaitGet(w)
    /\ UNCHANGED << program, simvars, num_clients, num_consultants,
                    max_queue_size, arrival_i, apc, break_duration,
                    time_on_calls, rejected_clients >>

\* task.cancel() of simulate_queue reaches the worker at its await, the
\* workers being resumed in the order of the cancel() calls
WCancelled(w) ==
    /\ MKRunning
    /\ w \in Workers
    /\ apc = "done"
    /\ \A o \in 1..(w - 1) : wpc[o] = "cancelled"
    /\ wpc[w] \in {"start", "get", "woken", "service", "break"}
    /\ wpc' = [wpc EXCEPT ![w] = "cancelled"]
    /\ UNCHANGED << program, simvars, num_clients, num_consultants,
                    max_queue_size, client_queue, getters, unfinished_tasks,
                    arrival_i, apc, wclient, service_time, handled_calls,
                    break_duration, time_on_breaks, time_on_calls,
                    time_on_previous_call, processed_clients,
                    rejected_clients >>

Next ==
    \/ Route
    \/ Receive
    \/ \E r \in Slots : RTake(r)
    \/ \E r \in Slots : RFinish(r)
    \/ \E r \in Slots : RBreakEnd(r)
    \/ Teardown
    \/ \E r \in Slots : RCancelled(r)
    \/ DCancelled
    \/ MKStart
    \/ Arrive
    \/ JoinReturns
    \/ \E w \in WSlots : WTake(w)
    \/ \E w \in WSlots : WServiceEnd(w)
    \/ \E w \in WSlots : WBreakEnd(w)
    \/ \E w \in WSlots : WCancelled(w)

Spec == Init /\ [][Next]_vars

\* simulate_queue alone.  The event loop resumes every task whose sleep is
\* over or whose awaited queue event has happened, so every step that
\* stays enabled is eventually taken.
InitQueue ==
    /\ program = "modele_kolejkowe"
    /\ InitSim
    /\ InitMK

NextQueue ==
    \/ MKStart
    \/ Arrive
    \/ JoinReturns
    \/ \E w \in WSlots : WTake(w)
    \/ \E w \in WSlots : WServiceEnd(w)
    \/ \E w \in WSlots : WBreakEnd(w)
    \/ \E w \in WSlots : WCancelled(w)

FairQueue ==
    /\ WF_vars(MKStart)
    /\ WF_vars(Arrive)
    /\ WF_vars(JoinReturns)
    /\ \A w \in WSlots :
          /\ WF_vars(WTake(w))
          /\ WF_vars(WServiceEnd(w))
          /\ WF_vars(WBreakEnd(w))
          /\ WF_vars(WCancelled(w))

SpecQueue == InitQueue /\ [][NextQueue]_vars /\ FairQueue

\* ========================================================================
\* Properties
\* ========================================================================

\* C1: for every capacity >= 1 the number of waiting calls never exceeds
\* it: 0 <= qsize <= buffer_size for each Responder / Consultant queue, and
\* 0 <= qsize <= max_queue_size for the shared client_queue.
C1_QueueWithinCapacity ==
    /\ (SimRunning /\ buffer_size >= 1) =>
           \A r \in Responders : Len(queue[r]) \in 0..buffer_size
    /\ MKRunning => Len(client_queue) \in 0..max_queue_size

\* a queue filled to its capacity turned a call away and was then served
C1_Witness ==
    \E r \in Responders :
        /\ SimRunning /\ buffer_size >= 1
        /\ Len(queue[r]) = buffer_size
        /\ rejected[r] > 0
        /\ processed[r] > 0

\* C2 as stated: at run end total_processed + total_rejected equals the
\* number of calls the generator produced.
C2_AsStated ==
    mainpc = "done" => total_processed + total_rejected = calls_generated

\* C2 (amended): at run end every generated call is counted once in
\* total_processed or total_rejected, or is still waiting in a queue, or
\* was in service when the tasks were cancelled.
C2_Conservation ==
    mainpc = "done" =>
        total_processed + total_rejected + QueuedCalls + InServiceCalls
            = calls_generated

\* the run ended with a call rejected, one waiting and one in service
C2_Witness ==
    /\ mainpc = "done"
    /\ total_rejected > 0
    /\ QueuedCalls > 0 /\ InServiceCalls > 0

\* C3: receive(call) on a queue of capacity >= 1: with qsize < capacity the
\* call is appended at the tail and rejected is unchanged; with
\* qsize = capacity the queue is unchanged and rejected grows by exactly 1;
\* no other responder's queue or counters change, nor processed and
\* calls_since_break of any.
C3_ReceiveEffect ==
    [][ (dpc = "routed" /\ dpc' # "routed" /\ buffer_size >= 1) =>
          /\ Len(queue[chosen]) < buffer_size =>
                /\ queue'[chosen] = Append(queue[chosen], gen_call)
                /\ rejected'[chosen] = rejected[chosen]
          /\ Len(queue[chosen]) = buffer_size =>
                /\ queue'[chosen] = queue[chosen]
                /\ rejected'[chosen] = rejected[chosen] + 1
          /\ \A o \in Responders \ {chosen} :
                queue'[o] = queue[o] /\ rejected'[o] = rejected[o]
          /\ processed' = processed
          /\ calls_since_break' = calls_since_break ]_vars

\* receive has both admitted and rejected on one bounded queue
C3_Witness ==
    \E r \in Responders :
        /\ buffer_size >= 1 /\ dpc = "sleeping"
        /\ rejected[r] > 0
        /\ Len(queue[r]) = buffer_size
        /\ Len(admitted[r]) > buffer_size

\* C4: each agent starts and completes its admitted calls in the order of
\* admission: the calls completed, then the one in service, then the ones
\* waiting are exactly the admitted calls in admission order.
C4_PerAgentFIFO ==
    \A r \in Responders :
        admitted[r] = handled[r]
                        \o (IF InService(r) THEN << current[r] >> ELSE << >>)
                        \o queue[r]

\* one call completed, the next in service, taken from a queue in which
\* a later call still waits
C4_Witness ==
    \E r \in Responders :
        /\ Len(handled[r]) >= 1
        /\ InService(r)
        /\ Len(queue[r]) >= 1

\* C5: route_shortest_queue returns a responder whose queue is no longer
\* than any other's, the one of lowest index among those of minimum size,
\* and the selection changes no queue and no counter.
C5_ShortestQueue ==
    /\ [](SimRunning =>
            LET c == route_shortest_queue(queue, num_responders) IN
            /\ c \in Responders
            /\ \A o \in Responders :
                  /\ Len(queue[c]) <= Len(queue[o])
                  /\ Len(queue[o]) = Len(queue[c]) => c <= o
            /\ (dpc = "routed" /\ routing_fn = "route_shortest_queue") => chosen = c)
    /\ [][ (dpc # "routed" /\ dpc' = "routed") =>
              UNCHANGED << queue, processed, rejected, calls_since_break,
                           queue_lengths, handling_times >> ]_vars

\* the second responder was selected because its queue was strictly shorter
C5_Witness ==
    /\ routing_fn = "route_shortest_queue" /\ dpc = "routed"
    /\ num_responders >= 2
    /\ chosen = 2
    /\ Len(queue[2]) < Len(queue[1])

\* C6: calls_since_break never exceeds break_threshold; it is at most
\* break_threshold when a break starts; it goes back to 0 in the step that
\* completes a break, and it never decreases in any other step.
C6_BreakInvariant ==
    /\ [](\A r \in Responders : calls_since_break[r] <= break_threshold)
    /\ [][ \A r \in Responders :
             /\ (pc[r] # "break" /\ pc'[r] = "break") =>
                    calls_since_break'[r] <= break_threshold
             /\ (pc[r] = "break" /\ pc'[r] \in {"get", "handling"}) =>
                    calls_since_break'[r] = 0
             /\ calls_since_break'[r] < calls_since_break[r] =>
                    /\ pc[r] = "break" /\ pc'[r] \in {"get", "handling"}
                    /\ calls_since_break'[r] = 0 ]_vars

\* a responder completed a break and has handled a call since
C6_Witness ==
    \E r \in Responders :
        /\ break_threshold >= 2
        /\ processed[r] > break_threshold
        /\ calls_since_break[r] = 1

\* C7 as stated: one agent of capacity 1; the second call, received while
\* the first is still being handled, is rejected.
C7_AsStated ==
    (SimRunning /\ num_responders = 1 /\ buffer_size = 1
       /\ gen_call = 2 /\ dpc = "sleeping" /\ processed[1] = 0)
    => rejected_log[1] = << 1 >>

\* C7 (amended): one agent of capacity 1 and no service completed: the
\* call in service (call 0) has left the queue, so the second call is
\* admitted and waits; every further call is rejected at once, the third
\* being the first rejection, and no rejected call is taken into service.
C7_SingleAgentCapacityOne ==
    (SimRunning /\ num_responders = 1 /\ buffer_size = 1
       /\ gen_call >= 2 /\ dpc # "routed" /\ processed[1] = 0)
    => /\ dpc \in {"sleeping", "cancelled"}
       /\ InService(1) /\ current[1] = 0
       /\ queue[1] = << 1 >>
       /\ rejected[1] = gen_call - 2
       /\ rejected_log[1] = [i \in 1..(gen_call - 2) |-> i + 1]

\* the third call has been rejected while call 0 is in service
C7_Witness ==
    /\ SimRunning /\ num_responders = 1 /\ buffer_size = 1
    /\ gen_call = 3 /\ dpc = "sleeping" /\ processed[1] = 0
    /\ pc[1] = "handling"
    /\ rejected[1] = 1

\* C8 as stated: with buffer_size = 0 the run fails at construction, so no
\* call is ever generated, admitted or rejected and no task ever runs.
C8_CapacityZeroFailsFast ==
    (SimRunning /\ buffer_size = 0) =>
        /\ calls_generated = 0
        /\ dpc = "start"
        /\ \A r \in Responders :
              pc[r] = "start" /\ admitted[r] = << >> /\ rejected[r] = 0

\* C9: a call that receive rejected is in no queue, in no agent's hands,
\* was admitted nowhere and completed nowhere, and is logged as rejected
\* by exactly one agent exactly once; rejected counts exactly these calls.
C9_RejectedIsDropped ==
    \A r \in Responders :
        /\ rejected[r] = Len(rejected_log[r])
        /\ \A i \in 1..Len(rejected_log[r]) :
              LET c == rejected_log[r][i] IN
              /\ \A o \in Responders :
                    /\ c \notin Range(queue[o])
                    /\ c \notin Range(admitted[o])
                    /\ c \notin Range(handled[o])
                    /\ current[o] # c
                    /\ \A j \in 1..Len(rejected_log[o]) :
                          rejected_log[o][j] = c => (o = r /\ j = i)

\* the responder that rejected a call went on to complete the calls it
\* had admitted before
C9_Witness ==
    \E r \in Responders :
        /\ rejected_log[r] # << >>
        /\ processed[r] >= 2
        /\ queue[r] = << >>

\* C10: from the cancel on, processed, rejected and calls_since_break keep
\* the values they had, nothing more is completed, and a task leaves the
\* await it is suspended in only by exiting.
C10_CooperativeCancellation ==
    [][ cancel_requested' =>
          /\ processed' = processed
          /\ rejected' = rejected
          /\ calls_since_break' = calls_since_break
          /\ handled' = handled
          /\ queue' = queue
          /\ \A r \in Responders : pc'[r] \in {pc[r], "cancelled"}
          /\ dpc' \in {dpc, "cancelled"} ]_vars

\* one responder was cancelled in its service sleep with calls already
\* processed, another in its break sleep
C10_Witness ==
    \E r \in Responders, o \in Responders :
        /\ pc[r] = "cancelled" /\ InService(r) /\ processed[r] > 0
        /\ pc[o] = "cancelled" /\ ~InService(o)
        /\ calls_since_break[o] = break_threshold

\* C11 as stated: the totals are summed and the result returned only once
\* the dispatch loop and every Responder loop have terminated.
C11_AggregationAfterTermination ==
    mainpc = "done" =>
        /\ dpc \in {"cancelled"}
        /\ \A r \in Responders : pc[r] \in {"cancelled", "crashed"}

\* The drained state of simulate_queue: every client has arrived, the
\* queue is empty, nothing is unfinished, no worker holds a client
Drained ==
    /\ arrival_i = num_clients + 1
    /\ client_queue = << >>
    /\ unfinished_tasks = 0
    /\ \A w \in Workers : wpc[w] \notin {"service", "break"}

\* C12: with num_consultants >= 1 simulate_queue eventually finishes, and
\* whenever it has finished all num_clients arrivals were generated and
\* the queue has drained.
C12_FixedCountTerminates ==
    /\ [](apc = "done" => Drained)
    /\ (num_consultants >= 1) ~> (apc = "done")

\* a finished run in which both of two consultants served clients, and
\* whose workers have been cancelled
C12_Witness ==
    /\ apc = "done"
    /\ num_consultants >= 2
    /\ \A w \in Workers : handled_calls[w] >= 1 /\ wpc[w] = "cancelled"

\* C13: at the end of simulate_queue each of the clients 1..num_clients is
\* exactly once in exactly one of processed_clients and rejected_clients,
\* and the consultants' handled_calls add up to len(processed_clients).
C13_EveryClientAccounted ==
    apc = "done" =>
        /\ Len(processed_clients) + Len(rejected_clients) = num_clients
        /\ Range(processed_clients) \cap Range(rejected_clients) = {}
        /\ Range(processed_clients) \cup Range(rejected_clients) = 1..num_clients
        /\ SumTo(handled_calls, num_consultants) = Len(processed_clients)

\* a finished run with all MaxClients clients, some processed, some rejected
C13_Witness ==
    /\ apc = "done"
    /\ num_clients >= 3
    /\ Len(processed_clients) >= 2
    /\ Len(rejected_clients) >= 1

\* Identifiers passed to some Responder's receive, admitted or rejected
Dispatched(r) == Range(admitted[r]) \cup Range(rejected_log[r])

\* C14: the generator emits 0, 1, 2, ... without gap or repetition, goes
\* to its inter-arrival sleep after each call, and every emitted call went
\* to exactly one Responder's receive, once.
C14_GeneratorSequence ==
    /\ [](SimRunning =>
            /\ UNION {Dispatched(r) : r \in Responders} = 0..(gen_call - 1)
            /\ SumTo([r \in Slots |-> Len(admitted[r]) + Len(rejected_log[r])],
                     num_responders) = gen_call
            /\ dpc = "routed" => chosen \in Responders)
    /\ [][ gen_call' # gen_call =>
              /\ gen_call' = gen_call + 1
              /\ dpc = "routed" /\ dpc' = "sleeping"
              /\ gen_call \in Dispatched(chosen)' ]_vars

\* three calls emitted, dispatched to two responders
C14_Witness ==
    /\ gen_call = 3 /\ dpc = "sleeping"
    /\ num_responders >= 2
    /\ \A r \in Responders : Dispatched(r) # {}

\* C15 as stated: while a Responder is on break its calls_since_break is 0.
C15_AsStated ==
    \A r \in Responders : pc[r] = "break" => calls_since_break[r] = 0

\* C15 (amended): calls_since_break is reset when the break ends, not when
\* it starts: during the whole break it equals break_threshold, and it is
\* 0 right after the step that completes the break.
C15_ResetWhenBreakEnds ==
    /\ [](\A r \in Responders :
            pc[r] = "break" => calls_since_break[r] = break_threshold)
    /\ [][ \A r \in Responders :
             (pc[r] = "break" /\ pc'[r] \notin {"break", "cancelled"}) =>
                 calls_since_break'[r] = 0 ]_vars

\* a break has been completed, and the responder is on its next one
C15_Witness ==
    \E r \in Responders :
        /\ pc[r] = "break"
        /\ processed[r] > break_threshold

\* C16: in simulation.py, right after completing a call a Responder is on
\* break iff calls_since_break >= break_threshold, and is otherwise back at
\* its queue (waiting, or serving the call that waited); on break it takes
\* no call; when the break ends it is back at its queue.
C16_BreakDecision ==
    [][ program = "simulation" =>
          \A r \in Responders :
            /\ processed'[r] # processed[r] =>
                  /\ (pc'[r] = "break") <=>
                         (calls_since_break'[r] >= break_threshold)
                  /\ pc'[r] \in {"break", "get", "handling"}
            /\ (pc[r] = "break" /\ pc'[r] \in {"break", "cancelled"}) =>
                  /\ current'[r] = current[r]
                  /\ Len(queue'[r]) >= Len(queue[r])
            /\ (pc[r] = "break" /\ pc'[r] \notin {"break", "cancelled"}) =>
                  pc'[r] \in {"get", "handling"} ]_vars

\* with threshold 2 the responder went back to its queue after its first
\* call, is on break after its second, and a call waits meanwhile
C16_Witness ==
    \E r \in Responders :
        /\ program = "simulation"
        /\ break_threshold = 2
        /\ pc[r] = "break"
        /\ processed[r] = 2
        /\ queue[r] # << >>

\* C17: the dispatch loop is never suspended inside receive: the put that
\* follows the full() check never has to wait for a slot.
C17_ReceiveNeverBlocks ==
    dpc # "blocked"

\* a put filled the last slot of a queue whose responder is busy
C17_Witness ==
    \E r \in Responders :
        /\ buffer_size >= 1
        /\ dpc = "sleeping"
        /\ pc[r] = "handling"
        /\ Len(queue[r]) = buffer_size
        /\ rejected[r] = 0
        /\ admitted[r][Len(admitted[r])] = gen_call - 1

\* C18: processed, calls_since_break, the queue_lengths sample and the
\* handling_times sample change together, in the step that follows the
\* service sleep, and by one each; so processed = len(handling_times) =
\* len(queue_lengths) in every state.
C18_HandlingStepAtomic ==
    /\ [](\A r \in Responders :
            /\ processed[r] = handling_times[r]
            /\ processed[r] = Len(queue_lengths[r]))
    /\ [][ \A r \in Responders :
             (\/ processed'[r] # processed[r]
              \/ handling_times'[r] # handling_times[r]
              \/ queue_lengths'[r] # queue_lengths[r]
              \/ calls_since_break'[r] > calls_since_break[r]) =>
                 /\ pc[r] = "handling"
                 /\ processed'[r] = processed[r] + 1
                 /\ calls_since_break'[r] = calls_since_break[r] + 1
                 /\ handling_times'[r] = handling_times[r] + 1
                 /\ Len(queue_lengths'[r]) = Len(queue_lengths[r]) + 1 ]_vars

\* two calls completed, one of them while another call was waiting
C18_Witness ==
    \E r \in Responders :
        /\ processed[r] = 2
        /\ \E i \in 1..Len(queue_lengths[r]) : queue_lengths[r][i] > 0

\* Responders suspended in the service sleep of a call they took
ServicingCalls ==
    SumTo([r \in Slots |-> IF pc[r] = "handling" THEN 1 ELSE 0], num_responders)

\* C19: while simulate() runs, the aggregation state included, every
\* generated call is in exactly one of four places: counted as processed,
\* counted as rejected, waiting in a queue, or being serviced.  (A state
\* between the generator's yield and receive is inside one step of the
\* dispatch task; a task that was resumed with CancelledError has left
\* simulate()'s lifetime.)
C19_FullAccounting ==
    (SimRunning /\ dpc # "routed"
       /\ \A r \in Responders : pc[r] # "cancelled")
    => gen_call = SumTo(processed, num_responders)
                    + SumTo(rejected, num_responders)
                    + QueuedCalls
                    + ServicingCalls

\* all four places are occupied at the aggregation
C19_Witness ==
    /\ mainpc = "done"
    /\ \A r \in Responders : pc[r] # "cancelled"
    /\ SumTo(processed, num_responders) > 0
    /\ SumTo(rejected, num_responders) > 0
    /\ ServicingCalls > 0
    /\ gen_call = 3

\* C20: under route_shortest_queue a call is rejected only when every
\* Responder's queue is at capacity at the dispatch; under route_random a
\* call can be rejected while another Responder's queue has room (the
\* state C20_Witness).
C20_RejectionUnderRouting ==
    [][ (routing_fn = "route_shortest_queue"
           /\ \E r \in Responders : rejected'[r] # rejected[r]) =>
          \A o \in Responders : Len(queue[o]) >= buffer_size ]_vars

\* route_random picked a full queue while another queue has room: the
\* receive that follows rejects the call
C20_Witness ==
    /\ routing_fn = "route_random"
    /\ dpc = "routed"
    /\ full(queue[chosen], buffer_size)
    /\ \E o \in Responders : ~full(queue[o], buffer_size)

\* C21: in modele_kolejkowe.py the break a Consultant takes right after a
\* call lasts max(s / 3, 1), s being the service time of that
\* just-completed call.
C21_BreakFromCompletedCall ==
    \A w \in Workers :
        wpc[w] = "break" => break_duration[w] = break_length(service_time[w])

\* C22: in valid_simulation.py, with a data record that starts without
\* the 'handled_calls' entry, Consultant.run raises no error, after every
\* completed call data[name]['handled_calls'] equals processed, and the
\* break length computed from it lies within [5, 10].
C22_HandledCallsInitialised ==
    (program = "valid_simulation" /\ ~has_handled_calls) =>
        \A r \in Responders :
            /\ pc[r] # "crashed"
            /\ handled_calls_data[r] = processed[r]
            /\ break_time(handled_calls_data[r]) \in 5..10

====
